---- MODULE Spec2Model ----
(***************************************************************************)
(* A model of mqtt_saver.py: an MQTT client that matches incoming          *)
(* (topic, payload) messages against a rule table read from the            *)
(* configuration and runs the matching rule's shell command and/or         *)
(* on-screen notification.                                                 *)
(*                                                                         *)
(* The process is a single thread.  pc is its position: "main" before      *)
(* start-up, "loop" when idle inside client.loop_forever(), the name of    *)
(* the child process it is blocked on while a callback waits in            *)
(* p.communicate(), and "exit" once the interpreter has terminated.        *)
(* trace is what the callback being run (or the last one run) has done     *)
(* that is visible from outside: log records, child processes spawned,     *)
(* their results, and subscribe requests, in program order.                *)
(***************************************************************************)
EXTENDS Integers, Sequences, FiniteSets, TLC

VARIABLES
    pc,             \* position of the single thread
    args,           \* parsed command line: [dry_run, verbose]
    path,           \* programs shutil.which() finds
    config,         \* the JSON configuration: [host, notify, topics]
    broker,         \* whether client.connect() reaches the broker
    verbose,        \* MQTTCallbacks.verbose
    dry_run,        \* MQTTCallbacks.dry_run
    notify,         \* MQTTCallbacks.notify: "OSD" or "DunstNotify"
    topics,         \* MQTTCallbacks.topics: topic -> MQTTTopic
    sub_topic_list, \* MQTTCallbacks.sub_topic_list: sequence of <<topic, qos>>
    status,         \* main's local status
    raised,         \* the exception that ended main or the event loop, or None
    ev,             \* the event being handled, or the last one handled
    trace,          \* the observable effects of handling ev
    ref             \* one earlier message event, with its trace

vars == <<pc, args, path, config, broker, verbose, dry_run, notify, topics,
          sub_topic_list, status, raised, ev, trace, ref>>

(***************************************************************************)
(* Values.                                                                 *)
(***************************************************************************)

\* Python's None, for the optional string fields and for unset values.
None == "<None>"

\* An empty dict.
EmptyDict == [x \in {} |-> None]

\* OSD.__init__'s default text_size.
text_size == 90

\* OSD.__init__'s default text_color.
text_color == "white"

\* The qos of every entry of sub_topic_list.
qos == 0

\* A rule definition of the configuration, as the keyword arguments of
\* MQTTTopic(**t).  A definition is a function from field names to values.
MQTTTopicFields == {"topic", "payload", "command", "osd"}

\* Whether MQTTTopic(**t) returns: it raises TypeError when a field without
\* a default is missing or a keyword is not a field.
MQTTTopicAccepts(t) ==
    /\ {"topic", "payload"} \subseteq DOMAIN t
    /\ DOMAIN t \subseteq MQTTTopicFields

\* An MQTTTopic whose osd defaults to the empty string.
MQTTTopic_osd_default_empty(t) ==
    [topic   |-> t.topic,
     payload |-> t.payload,
     command |-> IF "command" \in DOMAIN t THEN t.command ELSE None,
     osd     |-> IF "osd" \in DOMAIN t THEN t.osd ELSE ""]

\* MQTTTopic(**t), the dataclass instance, for a definition it accepts.
MQTTTopic(t) ==
    [topic   |-> t.topic,
     payload |-> t.payload,
     command |-> IF "command" \in DOMAIN t THEN t.command ELSE None,
     osd     |-> IF "osd" \in DOMAIN t THEN t.osd ELSE None]

(***************************************************************************)
(* The inputs of a run: the configuration file, the command line, the      *)
(* programs installed, and whether the broker is reachable.                *)
(***************************************************************************)

OfficeAway == [topic |-> "/motion/office", payload |-> "away",
               command |-> "xset dpms force off"]
AlertFire  == [topic |-> "/alert", payload |-> "fire", osd |-> "FIRE!"]
DoorOpen   == [topic |-> "/door", payload |-> "open",
               command |-> "aplay bell.wav", osd |-> "DOOR"]
DoorShut   == [topic |-> "/door", payload |-> "shut", osd |-> "SHUT"]
IdleTick   == [topic |-> "/idle", payload |-> "away"]
NoPayload  == [topic |-> "/broken", command |-> "true"]

\* The /topics lists tried: empty, one action per rule, both actions and
\* none, a topic defined twice (in both orders), and a malformed rule.
TopicsConfigs ==
    { <<>>,
      <<OfficeAway, AlertFire>>,
      <<DoorOpen, IdleTick>>,
      <<DoorOpen, DoorShut>>,
      <<DoorShut, OfficeAway, DoorOpen>>,
      <<AlertFire, NoPayload>> }

\* /server/host (mandatory) and /notify (default "osd").
Hosts == {None, "localhost"}
NotifyConfigs == {None, "dunst", "xosd"}

Configs == [host : Hosts, notify : NotifyConfigs, topics : TopicsConfigs]

Programs == {"xrandr", "aosd_cat", "xdpyinfo", "dunstify"}
Paths == {Programs, Programs \ {"dunstify"}, Programs \ {"aosd_cat"}}

Args == [dry_run : BOOLEAN, verbose : BOOLEAN]

\* The messages, reason codes and log lines the transport delivers.
Topics == {"/motion/office", "/alert", "/door", "/idle", "/unknown"}
Payloads == {"away", "fire", "open", "shut"}
ReasonCodes == {0, 5}
LogLines == {"Sending PINGREQ"}

NoEvent == [type |-> "none", topic |-> "", payload |-> "", rc |-> 0]
MessageEvent(topic, payload) ==
    [type |-> "message", topic |-> topic, payload |-> payload, rc |-> 0]
ConnectEvent(rc) == [type |-> "connect", topic |-> "", payload |-> "", rc |-> rc]
DisconnectEvent(rc) ==
    [type |-> "disconnect", topic |-> "", payload |-> "", rc |-> rc]
LogEvent(line) == [type |-> "log", topic |-> "", payload |-> line, rc |-> 0]

NoRef == [ev |-> NoEvent, trace |-> <<>>]

\* The state when main() is entered (status = 1 is main's first statement).
Init ==
    /\ pc = "main"
    /\ args \in Args
    /\ path \in Paths
    /\ config \in Configs
    /\ broker \in BOOLEAN
    /\ verbose = FALSE
    /\ dry_run = FALSE
    /\ notify = None
    /\ topics = EmptyDict
    /\ sub_topic_list = <<>>
    /\ status = 1
    /\ raised = None
    /\ ev = NoEvent
    /\ trace = <<>>
    /\ ref = NoRef

(***************************************************************************)
(* Start-up: main() up to client.loop_forever().                           *)
(***************************************************************************)

\* A check_requirements whose assert is not evaluated.
check_requirements_no_assert == TRUE

\* check_requirements: every one of the three commands is found in the path.
shell_commands == {"xrandr", "aosd_cat", "xdpyinfo"}
check_requirements == shell_commands \subseteq path

\* config.get_str("/notify", default="osd")
notify_type == IF config.notify = None THEN "osd" ELSE config.notify

\* The notifier MQTTCallbacks.__init__ selects, None when it raises
\* NotImplementedError.
SelectNotify ==
    IF notify_type = "osd" THEN "OSD"
    ELSE IF notify_type = "dunst" THEN "DunstNotify"
    ELSE None

\* A dict insertion that keeps the value a key already has.
DictSet_keep_first(d, k, v) ==
    [x \in DOMAIN d \cup {k} |-> IF x \in DOMAIN d THEN d[x] ELSE v]

\* self.topics[entry.topic] = entry
DictSet(d, k, v) == [x \in DOMAIN d \cup {k} |-> IF x = k THEN v ELSE d[x]]

\* An entry of sub_topic_list with qos 1 (at least once).
SubEntry_qos1(entry) == <<entry.topic, qos + 1>>

\* The pair appended to sub_topic_list for an entry: (entry.topic, 0).
SubEntry(entry) == <<entry.topic, qos>>

\* The loop of MQTTCallbacks.__init__ over the first n rule definitions:
\* the pair <<topics, sub_topic_list>>.
RECURSIVE BuildTopics(_, _)
BuildTopics(defs, n) ==
    IF n = 0 THEN <<EmptyDict, <<>> >>
    ELSE LET before == BuildTopics(defs, n - 1)
             entry  == MQTTTopic(defs[n])
         IN  << DictSet(before[1], entry.topic, entry),
                Append(before[2], SubEntry(entry)) >>

\* Whether every rule definition is accepted by MQTTTopic(**t).
WellFormed(defs) == \A i \in 1..Len(defs) : MQTTTopicAccepts(defs[i])

\* The exception that ends start-up, in the order main() can raise them, or
\* None when the event loop is entered.
StartupError ==
    IF ~check_requirements THEN "AssertionError"
    ELSE IF config.host = None THEN "JSONConfigError"
    ELSE IF SelectNotify = None THEN "NotImplementedError"
    ELSE IF ~WellFormed(config.topics) THEN "TypeError"
    ELSE IF ~broker THEN "ConnectionRefusedError"
    ELSE None

\* The exceptions main() catches; any other one leaves main() uncaught.
Caught(e) == e \in {"KeyboardInterrupt", "AssertionError"}

\* The exit code of the terminated process: main's status (sys.exit(status)
\* when non-zero, falling off the end of the script otherwise), or the
\* interpreter's code 1 for an exception nobody caught.
ExitCode == IF raised # None /\ ~Caught(raised) THEN 1 ELSE status

main ==
    /\ pc = "main"
    /\ IF StartupError # None
       THEN /\ pc' = "exit"
            /\ raised' = StartupError
            /\ UNCHANGED <<verbose, dry_run, notify, topics, sub_topic_list>>
       ELSE /\ pc' = "loop"
            /\ verbose' = args.verbose
            /\ dry_run' = args.dry_run
            /\ notify' = SelectNotify
            /\ topics' = BuildTopics(config.topics, Len(config.topics))[1]
            /\ sub_topic_list' = BuildTopics(config.topics, Len(config.topics))[2]
            /\ raised' = None
    /\ UNCHANGED <<args, path, config, broker, status, ev, trace, ref>>

(***************************************************************************)
(* Command lines, child-process results and trace records.                 *)
(***************************************************************************)

\* A command line handed to the shell: the f-string that builds it and the
\* values substituted.
Cmd(fmt, text, x, y, w) == [fmt |-> fmt, text |-> text, x |-> x, y |-> y, w |-> w]
NoCmd == Cmd("", "", 0, 0, 0)
TopicCommand(command) == Cmd("{topic.command}", command, 0, 0, 0)
XrandrCmd == Cmd("xrandr", "", 0, 0, 0)
XdpyinfoCmd == Cmd("xdpyinfo", "", 0, 0, 0)
DunstifyCmd(text) == Cmd("dunstify {text}", text, 0, 0, 0)
AosdCatCmd(text, x, y, w) ==
    Cmd("echo \"{text}\" | aosd_cat -x {x} -y -{y} -w {text_width} -R {text_color} -n {text_size}",
        text, x, y, w)

\* What p.communicate() and p.returncode give: the exit code, the captured
\* stdout and stderr, and stdout split into lines for the two geometry
\* programs (a line is [kind, w, h]).
Result(ret, stdout, stderr, lines) ==
    [ret |-> ret, stdout |-> stdout, stderr |-> stderr, lines |-> lines]
NoResult == Result(0, "", "", <<>>)

Line(kind, w, h) == [kind |-> kind, w |-> w, h |-> h]

\* A trace record.  k is "log", "spawn", "exit" or "subscribe".
Rec(k, level, msg, text, cmd, ret, parts, result, subs) ==
    [k |-> k, level |-> level, msg |-> msg, text |-> text, cmd |-> cmd,
     ret |-> ret, parts |-> parts, result |-> result, subs |-> subs]
LogRec(level, msg, text) ==
    Rec("log", level, msg, text, NoCmd, 0, <<>>, NoResult, <<>>)
SpawnRec(cmd) == Rec("spawn", "", "", "", cmd, 0, <<>>, NoResult, <<>>)
ExitRec(cmd, result) == Rec("exit", "", "", "", cmd, 0, <<>>, result, <<>>)
SubscribeRec(subs) == Rec("subscribe", "", "", "", NoCmd, 0, <<>>, NoResult, subs)

\* init_logging: the root logger and its handlers are set to logging.INFO.
LevelNo == [debug |-> 10, info |-> 20, warning |-> 30, error |-> 40]
LoggerLevel == "info"
isEnabledFor(level) == LevelNo[level] >= LevelNo[LoggerLevel]

\* logging.debug/info/warning/error: the records a call adds to the log.
Log(level, msg, text) ==
    IF isEnabledFor(level) THEN <<LogRec(level, msg, text)>> ELSE <<>>

\* The message "{cmd_line} returned {ret}", followed by stdout and by stderr
\* when they are not empty, as ShellExecError.__init__ and
\* __parse_topic_command build it (the same text in both places).
err_msg(cmd, result) ==
    Rec("log", "error", "{cmd_line} returned {ret}", "", cmd, result.ret,
        (IF result.stdout # "" THEN <<result.stdout>> ELSE <<>>)
            \o (IF result.stderr # "" THEN <<result.stderr>> ELSE <<>>),
        NoResult, <<>>)

\* An exec_text_command that raises on a non-zero exit code whatever check
\* is.
exec_text_command_raises_unchecked(check, result) == result.ret # 0

\* exec_text_command raises ShellExecError when check is set and the exit
\* code is not 0; otherwise it returns (ret, stdout, stderr).
exec_text_command_raises(check, result) == check /\ result.ret # 0

(***************************************************************************)
(* OSD: the screen geometry and the overlay command.                       *)
(***************************************************************************)

\* The index of the first line of lines, from i on, whose kind is in kinds;
\* 0 when there is none.
RECURSIVE FirstLine(_, _, _)
FirstLine(lines, kinds, i) ==
    IF i > Len(lines) THEN 0
    ELSE IF lines[i].kind \in kinds THEN i
    ELSE FirstLine(lines, kinds, i + 1)

\* An OSD.__get_geometry that always asks xdpyinfo.
get_geometry_always_dpy(lines) == [st |-> "xdpyinfo", w |-> 0, h |-> 0]

\* OSD.__get_geometry on xrandr's output.  The first line holding " primary "
\* decides: its fourth word is WxH+X+Y ("primary"), or, for a primary output
\* that is switched off, a word without an "x" ("primary_off"), and then
\* w_str, h_str = geo_str.split("x") raises ValueError.  Without such a line
\* the geometry is asked of xdpyinfo.
get_geometry(lines) ==
    LET i == FirstLine(lines, {"primary", "primary_off"}, 1)
    IN  IF i = 0 THEN [st |-> "xdpyinfo", w |-> 0, h |-> 0]
        ELSE IF lines[i].kind = "primary"
        THEN [st |-> "ok", w |-> lines[i].w, h |-> lines[i].h]
        ELSE [st |-> "ValueError", w |-> 0, h |-> 0]

\* OSD.__get_geometry_dpy on xdpyinfo's output: the first line holding
\* "dimensions:", or NotImplementedError when there is none.
get_geometry_dpy(lines) ==
    LET i == FirstLine(lines, {"dimensions"}, 1)
    IN  IF i = 0 THEN [st |-> "NotImplementedError", w |-> 0, h |-> 0]
        ELSE [st |-> "ok", w |-> lines[i].w, h |-> lines[i].h]

\* int(a / b) of Python for b > 0: the quotient truncated towards zero.
IntDiv(a, b) == IF a >= 0 THEN a \div b ELSE -((-a) \div b)

\* OSD.display_text's command line for a text on a width x height screen.
OsdCmdLine(text, width, height) ==
    LET text_width == Len(text) * text_size
        y == IntDiv(2 * height - text_size, 4)
        x == IntDiv(2 * width - text_width, 4)
    IN  AosdCatCmd(text, x, y, text_width)

\* The outputs of xrandr and xdpyinfo tried.
XrandrLines ==
    { <<Line("other", 0, 0)>>,
      <<Line("other", 0, 0), Line("primary", 1920, 1080), Line("other", 0, 0)>>,
      <<Line("primary_off", 0, 0)>> }
XdpyinfoLines ==
    { <<Line("other", 0, 0)>>,
      <<Line("other", 0, 0), Line("dimensions", 3840, 1080)>> }

\* The results of the child processes tried.  A program that is not
\* installed makes the shell return 127.
Failures == {Result(1, "", "", <<>>), Result(1, "out", "err", <<>>)}
CommandResults == {Result(0, "", "", <<>>)} \cup Failures
XrandrResults ==
    {Result(0, "out", "", l) : l \in XrandrLines} \cup {Result(1, "", "err", <<>>)}
XdpyinfoResults ==
    {Result(0, "out", "", l) : l \in XdpyinfoLines} \cup {Result(1, "", "err", <<>>)}
NotFound == Result(127, "", "not found", <<>>)
AllNotifierResults == {Result(0, "", "", <<>>), NotFound} \cup Failures
NotifierResults(prog) ==
    IF prog \in path THEN {Result(0, "", "", <<>>)} \cup Failures ELSE {NotFound}

(***************************************************************************)
(* MQTTCallbacks: the dispatcher.                                          *)
(***************************************************************************)

\* The entry used where on_message finds none.
NoEntry == [topic |-> None, payload |-> None, command |-> None, osd |-> None]

\* A lookup that falls back to the first rule of the configuration when the
\* topic is not in the table.
Lookup_first_rule(topic) ==
    IF topic \in DOMAIN topics
    THEN [found |-> TRUE, entry |-> topics[topic]]
    ELSE IF sub_topic_list # <<>>
    THEN [found |-> TRUE, entry |-> topics[sub_topic_list[1][1]]]
    ELSE [found |-> FALSE, entry |-> NoEntry]

\* on_message's lookup: msg.topic in self.topics, and self.topics[msg.topic].
Lookup(topic) ==
    IF topic \in DOMAIN topics
    THEN [found |-> TRUE, entry |-> topics[topic]]
    ELSE [found |-> FALSE, entry |-> NoEntry]

\* An on_message that drops a message equal to the one handled before it.
PayloadMatches_dedupe(entry, payload) ==
    /\ payload = entry.payload
    /\ ~(ev.type = "message" /\ ev.topic = entry.topic /\ ev.payload = payload)

\* An on_message that does not compare the payload.
PayloadMatches_any(entry, payload) == TRUE

\* on_message's test of the payload: payload == entry.payload.
PayloadMatches(entry, payload) == payload = entry.payload

\* The entry of the message being dispatched.
CurrentEntry == Lookup(ev.topic).entry

\* A __parse_topic that calls __parse_topic_osd before __parse_topic_command.
NextAction_osd_first(entry, after) ==
    IF after = "start" /\ entry.osd # None THEN "osd"
    ELSE IF after \in {"start", "osd"} /\ entry.command # None THEN "command"
    ELSE "return"

\* __parse_topic's order.  after is "start", or the action that has just
\* returned; the result is the action called next, or "return".
NextAction(entry, after) ==
    IF after = "start" /\ entry.command # None THEN "command"
    ELSE IF after \in {"start", "command"} /\ entry.osd # None THEN "osd"
    ELSE "return"

\* A __parse_topic_command that tests dry_run before it logs.
ExecutingLog_unless_dry_run(entry) ==
    IF dry_run THEN <<>>
    ELSE Log("info", "executing \"{topic.command}\"", entry.command)

\* __parse_topic_command's logging.info(f"executing ...").
ExecutingLog(entry) == Log("info", "executing \"{topic.command}\"", entry.command)

\* __parse_topic_osd's logging.info(f"displaying ...").
DisplayingLog(entry) == Log("info", "displaying \"{topic.osd}\"", entry.osd)

\* A __parse_topic_command that leaves check at its default.
command_check_default == TRUE

\* The check argument of the exec_text_command call of
\* __parse_topic_command.
command_check == FALSE

\* The check argument of every exec_text_command call of the notifiers (the
\* parameter's default).
notify_check == TRUE

\* The callback returns to the event loop.
Return(tr) ==
    /\ pc' = "loop"
    /\ trace' = tr
    /\ UNCHANGED <<status, raised>>

\* The callback blocks in exec_text_command on a child running cmd.
Spawn(prog, cmd, tr) ==
    /\ pc' = prog
    /\ trace' = Append(tr, SpawnRec(cmd))
    /\ UNCHANGED <<status, raised>>

\* An exception leaves the callback: the transport's loop re-raises it,
\* loop_forever() ends with it, and main() does not catch it.
Raise(exc, tr) ==
    /\ pc' = "exit"
    /\ trace' = tr
    /\ raised' = exc
    /\ UNCHANGED status

\* __parse_topic's except ShellExecError: the error is logged and the
\* callback returns.
except_ShellExecError(cmd, result, tr) == Return(Append(tr, err_msg(cmd, result)))

\* __parse_topic from the point after one action, and the two actions.
RECURSIVE parse_topic(_, _, _)
parse_topic_command(entry, tr) ==
    LET tr1 == tr \o ExecutingLog(entry)
    IN  IF dry_run
        THEN parse_topic(entry, "command", tr1)
        ELSE Spawn("command", TopicCommand(entry.command), tr1)

parse_topic_osd(entry, tr) ==
    LET tr1 == tr \o DisplayingLog(entry)
    IN  IF notify = "OSD"
        THEN Spawn("xrandr", XrandrCmd, tr1)
        ELSE Spawn("dunstify", DunstifyCmd(entry.osd), tr1)

parse_topic(entry, after, tr) ==
    LET next == NextAction(entry, after)
    IN  IF next = "command" THEN parse_topic_command(entry, tr)
        ELSE IF next = "osd" THEN parse_topic_osd(entry, tr)
        ELSE Return(tr)

\* A transport that runs its callbacks on threads of their own: an event is
\* handled whatever the process is doing.
Idle_threaded == pc \in {"loop", "command", "xrandr", "xdpyinfo", "aosd_cat", "dunstify"}

\* The transport calls a callback only from client.loop_forever(), on the
\* thread that runs it, and exec_text_command waits for its child
\* (p.communicate()) on that thread: an event is handled only when no
\* callback is running.
Idle == pc = "loop"

\* Bookkeeping when a callback starts: ev becomes the new event, and ref
\* keeps one earlier message with its trace for comparison (any one of
\* them: the message just handled is kept or not when the next one arrives).
Begin(e) ==
    /\ ev' = e
    /\ IF ref = NoRef /\ ev.type = "message" /\ e.type = "message"
       THEN ref' \in {NoRef, [ev |-> ev, trace |-> trace]}
       ELSE ref' = ref

\* Handlers that drop the rule of the message handled before (a rule that
\* fires once).
Frame_one_shot ==
    /\ topics' = [t \in DOMAIN topics \ {ev.topic} |-> topics[t]]
    /\ UNCHANGED <<args, path, config, broker, verbose, dry_run, notify,
                   sub_topic_list>>

\* What no handler assigns: the inputs and the fields of MQTTCallbacks.
Frame == UNCHANGED <<args, path, config, broker, verbose, dry_run, notify,
                     topics, sub_topic_list>>

on_message(topic, payload) ==
    /\ Idle
    /\ Begin(MessageEvent(topic, payload))
    /\ LET tr == Log("debug", "{msg.topic} -> {payload}", topic)
           hit == Lookup(topic)
       IN  IF ~hit.found
           THEN Return(tr \o Log("warning", "ignoring {msg.topic}", topic))
           ELSE IF PayloadMatches(hit.entry, payload)
           THEN parse_topic(hit.entry, "start", tr)
           ELSE Return(tr \o Log("warning", "payload not handled. payload=\"{payload}\"",
                                 payload))
    /\ Frame

\* The rest of __parse_topic_command once the command has ended: the exit
\* code is examined and reported by logging.error, never raised.
command_exit(result) ==
    /\ pc = "command"
    /\ LET entry == CurrentEntry
           cmd   == TopicCommand(entry.command)
           tr    == Append(trace, ExitRec(cmd, result))
       IN  IF exec_text_command_raises(command_check, result)
           THEN except_ShellExecError(cmd, result, tr)
           ELSE parse_topic(entry, "command",
                            IF result.ret # 0 THEN Append(tr, err_msg(cmd, result))
                            ELSE tr)
    /\ UNCHANGED <<ev, ref>>
    /\ Frame

\* OSD.display_text once xrandr has ended.
xrandr_exit(result) ==
    /\ pc = "xrandr"
    /\ LET entry == CurrentEntry
           tr    == Append(trace, ExitRec(XrandrCmd, result))
           geo   == get_geometry(result.lines)
       IN  IF exec_text_command_raises(notify_check, result)
           THEN except_ShellExecError(XrandrCmd, result, tr)
           ELSE IF geo.st = "ok"
           THEN Spawn("aosd_cat", OsdCmdLine(entry.osd, geo.w, geo.h), tr)
           ELSE IF geo.st = "xdpyinfo"
           THEN Spawn("xdpyinfo", XdpyinfoCmd, tr)
           ELSE Raise(geo.st, tr)
    /\ UNCHANGED <<ev, ref>>
    /\ Frame

\* OSD.display_text once xdpyinfo has ended.
xdpyinfo_exit(result) ==
    /\ pc = "xdpyinfo"
    /\ LET entry == CurrentEntry
           tr    == Append(trace, ExitRec(XdpyinfoCmd, result))
           geo   == get_geometry_dpy(result.lines)
       IN  IF exec_text_command_raises(notify_check, result)
           THEN except_ShellExecError(XdpyinfoCmd, result, tr)
           ELSE IF geo.st = "ok"
           THEN Spawn("aosd_cat", OsdCmdLine(entry.osd, geo.w, geo.h), tr)
           ELSE Raise(geo.st, tr)
    /\ UNCHANGED <<ev, ref>>
    /\ Frame

\* The notifier's own command (aosd_cat or dunstify) has ended:
\* display_text returns, or raises ShellExecError.
notifier_exit(result) ==
    /\ pc \in {"aosd_cat", "dunstify"}
    /\ result \in NotifierResults(pc)
    /\ LET entry == CurrentEntry
           cmd   == trace[Len(trace)].cmd
           tr    == Append(trace, ExitRec(cmd, result))
       IN  IF exec_text_command_raises(notify_check, result)
           THEN except_ShellExecError(cmd, result, tr)
           ELSE parse_topic(entry, "osd", tr)
    /\ UNCHANGED <<ev, ref>>
    /\ Frame

\* An on_connect that subscribes whatever the reason code.
ShouldSubscribe_any_reason(rc) == Len(sub_topic_list) > 0

\* on_connect's condition for subscribing.
ShouldSubscribe(rc) == rc = 0 /\ Len(sub_topic_list) > 0

on_connect(rc) ==
    /\ Idle
    /\ Begin(ConnectEvent(rc))
    /\ Return(Log("info", "connected. reason={reason_code}", "")
              \o (IF ShouldSubscribe(rc) THEN <<SubscribeRec(sub_topic_list)>>
                  ELSE <<>>))
    /\ Frame

on_disconnect(rc) ==
    /\ Idle
    /\ Begin(DisconnectEvent(rc))
    /\ Return(Log("info", "disconnected. reason={reason_code}", ""))
    /\ Frame

on_log(line) ==
    /\ Idle
    /\ Begin(LogEvent(line))
    /\ Return(IF verbose THEN Log("info", "{log}", line) ELSE <<>>)
    /\ Frame

\* The positions inside client.loop_forever(): idle, or in a callback that
\* waits for a child process.
Blocked == {"command", "xrandr", "xdpyinfo", "aosd_cat", "dunstify"}
InLoop == {"loop"} \cup Blocked

\* The user interrupts the process: KeyboardInterrupt is raised where the
\* thread is, and main() catches it with status still 1.
KeyboardInterrupt ==
    /\ pc \in InLoop
    /\ pc' = "exit"
    /\ raised' = "KeyboardInterrupt"
    /\ UNCHANGED <<status, ev, trace, ref>>
    /\ Frame

\* client.loop_forever() returns (the transport has been told to stop):
\* status = 0 is the statement after it.
loop_forever_returns ==
    /\ pc = "loop"
    /\ pc' = "exit"
    /\ status' = 0
    /\ UNCHANGED <<raised, ev, trace, ref>>
    /\ Frame

Next ==
    \/ main
    \/ \E t \in Topics, p \in Payloads : on_message(t, p)
    \/ \E r \in CommandResults : command_exit(r)
    \/ \E r \in XrandrResults : xrandr_exit(r)
    \/ \E r \in XdpyinfoResults : xdpyinfo_exit(r)
    \/ \E r \in AllNotifierResults : notifier_exit(r)
    \/ \E rc \in ReasonCodes : on_connect(rc)
    \/ \E rc \in ReasonCodes : on_disconnect(rc)
    \/ \E l \in LogLines : on_log(l)
    \/ KeyboardInterrupt
    \/ loop_forever_returns

Spec == Init /\ [][Next]_vars

(***************************************************************************)
(* Properties.                                                             *)
(***************************************************************************)

\* The records of tr of kind k.
Only(tr, k) == SelectSeq(tr, LAMBDA r : r.k = k)

\* The command lines spawned, and the results of the children, in order.
Spawned(tr) == [i \in 1..Len(Only(tr, "spawn")) |-> Only(tr, "spawn")[i].cmd]
Outcomes(tr) == [i \in 1..Len(Only(tr, "exit")) |-> Only(tr, "exit")[i].result]

\* The records by which the two actions announce themselves.
ExecutingRec(command) == LogRec("info", "executing \"{topic.command}\"", command)
DisplayingRec(text) == LogRec("info", "displaying \"{topic.osd}\"", text)
IsActionRec(r) ==
    /\ r.k = "log"
    /\ r.msg \in {"executing \"{topic.command}\"", "displaying \"{topic.osd}\""}
ActionsOf(tr) == SelectSeq(tr, IsActionRec)

\* The message being handled (or last handled) is for a rule of the table,
\* with the rule's payload.
IsMessage == ev.type = "message"
HasRule == IsMessage /\ ev.topic \in DOMAIN topics
Matched == HasRule /\ topics[ev.topic].payload = ev.payload
Rule == topics[ev.topic]

\* on_message has returned to the event loop.
Returned == pc = "loop" /\ IsMessage

\* The command lines that belong to showing text.
IsNotifierCmd(cmd, text) ==
    \/ cmd \in {XrandrCmd, XdpyinfoCmd, DunstifyCmd(text)}
    \/ cmd = AosdCatCmd(text, cmd.x, cmd.y, cmd.w)

\* The index of the first record of tr that spawns cmd, 0 if none.
IndexOfSpawn(tr, cmd) ==
    LET S == {i \in 1..Len(tr) : tr[i].k = "spawn" /\ tr[i].cmd = cmd}
    IN  IF S = {} THEN 0 ELSE CHOOSE i \in S : \A j \in S : i <= j

CommandFailedIn(tr) ==
    \E i \in 1..Len(tr) :
        /\ tr[i].k = "exit"
        /\ tr[i].cmd.fmt = "{topic.command}"
        /\ tr[i].result.ret # 0

\* The notifier has been started: its first child is xrandr or dunstify.
NotifierSpawnedIn(tr) ==
    \E i \in 1..Len(tr) :
        /\ tr[i].k = "spawn"
        /\ tr[i].cmd.fmt \in {"xrandr", "dunstify {text}"}

\* A child of tr ended with a non-zero exit code.
NonZeroExitIn(tr) == \E i \in 1..Len(tr) : tr[i].k = "exit" /\ tr[i].result.ret # 0

\* C1: a message that matches a rule runs that rule's actions and no others,
\* the command before the notification: when on_message has returned, the
\* actions announced are the rule's command (if any) followed by its
\* notification (if any); every child spawned belongs to one of them; and
\* outside dry-run the command is the first child, spawned once, and has
\* ended before any child of the notifier is spawned, and the notifier is
\* started.
C1_ExactActionsInOrder ==
    (Returned /\ Matched) =>
        LET cmd == TopicCommand(Rule.command)
            sp  == Spawned(trace)
        IN  /\ ActionsOf(trace) =
                   (IF Rule.command # None THEN <<ExecutingRec(Rule.command)>> ELSE <<>>)
                   \o (IF Rule.osd # None THEN <<DisplayingRec(Rule.osd)>> ELSE <<>>)
            /\ \A i \in 1..Len(sp) :
                   \/ Rule.command # None /\ sp[i] = cmd
                   \/ Rule.osd # None /\ IsNotifierCmd(sp[i], Rule.osd)
            /\ (Rule.command # None /\ ~dry_run) =>
                   /\ Len(sp) >= 1 /\ sp[1] = cmd
                   /\ \A i \in 2..Len(sp) : sp[i] # cmd
                   /\ trace[IndexOfSpawn(trace, cmd) + 1].k = "exit"
            /\ (Rule.osd # None /\ ~dry_run) => NotifierSpawnedIn(trace)

\* C1's case: a rule with both actions has been dispatched outside dry-run,
\* the command and the notifier both ran and the notifier succeeded.
C1_Witness ==
    /\ Returned /\ Matched /\ ~dry_run
    /\ Rule.command # None /\ Rule.osd # None
    /\ Len(Spawned(trace)) >= 3
    /\ trace[Len(trace)].k = "exit" /\ trace[Len(trace)].result.ret = 0

\* The child that ended last for the message being handled failed in one of
\* the three ways: the command or a notifier command ended with a non-zero
\* exit code, or xdpyinfo (asked because xrandr showed no primary line)
\* showed no dimensions line.
NonZeroExit(r) == r.k = "exit" /\ r.result.ret # 0
NoGeometry(r) ==
    /\ r.k = "exit" /\ r.cmd = XdpyinfoCmd /\ r.result.ret = 0
    /\ \A j \in 1..Len(r.result.lines) : r.result.lines[j].kind # "dimensions"
LastExit(tr) == Only(tr, "exit")[Len(Only(tr, "exit"))]
LastChildFailed(tr) ==
    /\ Only(tr, "exit") # <<>>
    /\ NonZeroExit(LastExit(tr)) \/ NoGeometry(LastExit(tr))

\* C2: an action failure of a dispatch (a command or notifier command with a
\* non-zero exit code, a geometry lookup that finds neither a primary line
\* nor a dimensions line) stays inside on_message: no exception reaches the
\* event loop because of it, and when on_message returns the failure is in
\* the log.
C2_FailureContained ==
    (IsMessage /\ LastChildFailed(trace)) =>
        /\ raised \in {None, "KeyboardInterrupt"}
        /\ Returned => \E i \in 1..Len(trace) :
                           trace[i].k = "log" /\ trace[i].level = "error"

\* C3: with dry-run enabled no child process is ever spawned.
C3_DryRunNeverSpawns == dry_run => Spawned(trace) = <<>>

\* C4: when the command of a rule with both actions ends with a non-zero
\* exit code, on_message logs the error and goes on to the notification in
\* the same dispatch (the notifier's first child is spawned next); and a
\* message dispatched after such a failure has all its rule's actions
\* announced, as one dispatched before any failure has.
C4_FailedCommandThenNotification ==
    /\ (Matched /\ Rule.osd # None /\ CommandFailedIn(trace)) =>
           LET i == IndexOfSpawn(trace, TopicCommand(Rule.command))
           IN  /\ i > 0 /\ Len(trace) >= i + 4
               /\ trace[i + 2] = err_msg(TopicCommand(Rule.command), trace[i + 1].result)
               /\ trace[i + 3] = DisplayingRec(Rule.osd)
               /\ trace[i + 4].k = "spawn"
               /\ IsNotifierCmd(trace[i + 4].cmd, Rule.osd)
    /\ (CommandFailedIn(ref.trace) /\ Returned /\ Matched) =>
           Len(ActionsOf(trace)) =
               (IF Rule.command # None THEN 1 ELSE 0) + (IF Rule.osd # None THEN 1 ELSE 0)

\* C4's case: an earlier dispatch had a failing command and went on to its
\* notifier, and a later message has been dispatched with both its actions.
C4_Witness ==
    /\ CommandFailedIn(ref.trace) /\ NotifierSpawnedIn(ref.trace)
    /\ Returned /\ Matched
    /\ Rule.command # None /\ Rule.osd # None
    /\ CommandFailedIn(trace) /\ NotifierSpawnedIn(trace)

\* C5: a message whose topic is not a key of the rule table executes no
\* action: on_message logs the warning "ignoring <topic>" and nothing else,
\* spawns no child, requests no subscription and returns without raising.
C5_UnknownTopicIgnored ==
    (IsMessage /\ ev.topic \notin DOMAIN topics) =>
        /\ trace = <<LogRec("warning", "ignoring {msg.topic}", ev.topic)>>
        /\ pc \notin Blocked
        /\ raised \in {None, "KeyboardInterrupt"}

\* C5's case: a message for an unknown topic has been handled by a
\* dispatcher whose table is not empty, with a payload some rule expects.
C5_Witness ==
    /\ Returned /\ ev.topic \notin DOMAIN topics
    /\ \E t \in DOMAIN topics : topics[t].payload = ev.payload

\* C6: a message for a rule's topic with a payload other than the rule's
\* executes no action: on_message logs the warning "payload not handled"
\* and nothing else, spawns no child and returns.
C6_OtherPayloadIgnored ==
    (HasRule /\ ev.payload # Rule.payload) =>
        /\ trace = <<LogRec("warning", "payload not handled. payload=\"{payload}\"",
                            ev.payload)>>
        /\ pc \notin Blocked
        /\ raised \in {None, "KeyboardInterrupt"}

\* C6's case: a message for the topic of a rule with both actions has been
\* handled, with another payload.
C6_Witness ==
    /\ Returned /\ HasRule /\ ev.payload # Rule.payload
    /\ Rule.command # None /\ Rule.osd # None

\* The process has ended before the dispatcher was constructed or the broker
\* connected (start-up failed), or after it entered the event loop.
StartupFailed == pc = "exit" /\ StartupError # None
CleanShutdown ==
    pc = "exit" /\ StartupError = None /\ raised \in {None, "KeyboardInterrupt"}

\* C7: the exit code is 0 on a clean shutdown, a user interrupt of the event
\* loop included, and non-zero when start-up fails.
C7_ExitCodes ==
    /\ CleanShutdown => ExitCode = 0
    /\ StartupFailed => ExitCode # 0

\* C8: two dispatches of the same (topic, payload) whose children gave the
\* same results have the same trace (the same log records and the same
\* children, in the same order), whatever was handled between them.
C8_SameEventSameActions ==
    (Returned /\ ref.ev = ev /\ Outcomes(ref.trace) = Outcomes(trace)) =>
        ref.trace = trace

\* C8's case: a matching message has been dispatched a second time, with
\* the same results of its children, one of them failing.
C8_Witness ==
    /\ Returned /\ Matched /\ ref.ev = ev
    /\ Outcomes(ref.trace) = Outcomes(trace)
    /\ NonZeroExitIn(trace)
    /\ Len(Spawned(trace)) >= 2

\* C9: on_connect logs and requests a subscription to the whole
\* sub_topic_list exactly when the reason code is 0 and the list is not
\* empty; on_disconnect only logs.  Neither spawns a child.
C9_SubscribeOnConnect ==
    /\ ev.type = "connect" =>
           trace = <<LogRec("info", "connected. reason={reason_code}", "")>>
                   \o (IF ev.rc = 0 /\ sub_topic_list # <<>>
                       THEN <<SubscribeRec(sub_topic_list)>> ELSE <<>>)
    /\ ev.type = "disconnect" =>
           trace = <<LogRec("info", "disconnected. reason={reason_code}", "")>>

\* C9's case: a successful connect after an earlier message (so not the
\* first connect of the run) has requested the subscription.
C9_Witness ==
    /\ pc = "loop" /\ ev.type = "connect" /\ ev.rc = 0
    /\ Len(sub_topic_list) >= 2
    /\ Only(trace, "subscribe") # <<>>
    /\ ref # NoRef

\* C10: with dry-run enabled, a matched rule that has a command logs the
\* command line first, and the command is neither spawned nor has its exit
\* code reported.
C10_DryRunLogsCommand ==
    (dry_run /\ Matched /\ Rule.command # None) =>
        /\ trace # <<>> /\ trace[1] = ExecutingRec(Rule.command)
        /\ \A i \in 1..Len(trace) :
               trace[i].cmd # TopicCommand(Rule.command)

\* C10's case: a dry-run dispatch of a rule with a command and a
\* notification has returned.
C10_Witness ==
    /\ dry_run /\ Returned /\ Matched
    /\ Rule.command # None /\ Rule.osd # None

\* The dispatcher has been constructed: main() has passed start-up.
Constructed == pc # "main" /\ notify # None

\* The indices of the definitions of topic t in the configuration, and the
\* greatest of them.
DefsOf(t) == {i \in 1..Len(config.topics) : config.topics[i].topic = t}
LastDefOf(t) == config.topics[CHOOSE i \in DefsOf(t) : \A j \in DefsOf(t) : j <= i]

\* The value of an optional field of a rule definition.
Field(d, f) == IF f \in DOMAIN d THEN d[f] ELSE None

\* C11: the rule table has one rule per topic defined in the configuration,
\* and for a topic defined more than once it is the last definition: the
\* rule's payload, command and notification text are those of the last one.
C11_LastDefinitionWins ==
    Constructed =>
        /\ DOMAIN topics = {config.topics[i].topic : i \in 1..Len(config.topics)}
        /\ \A t \in DOMAIN topics :
               /\ topics[t].topic = t
               /\ topics[t].payload = LastDefOf(t).payload
               /\ topics[t].command = Field(LastDefOf(t), "command")
               /\ topics[t].osd = Field(LastDefOf(t), "osd")

\* C11's case: the configuration defines a topic twice with different
\* payloads, and a message with the last definition's payload has been
\* dispatched.
C11_Witness ==
    /\ Returned /\ Matched
    /\ Cardinality(DefsOf(ev.topic)) >= 2
    /\ \E i \in DefsOf(ev.topic) : config.topics[i].payload # ev.payload
    /\ Spawned(trace) # <<>>

\* C12: the topics of sub_topic_list are the keys of the rule table, they
\* are listed in configuration order, and every entry has qos 0.
C12_SubscriptionListCoversTable ==
    Constructed =>
        /\ {sub_topic_list[i][1] : i \in 1..Len(sub_topic_list)} = DOMAIN topics
        /\ Len(sub_topic_list) = Len(config.topics)
        /\ \A i \in 1..Len(sub_topic_list) :
               /\ sub_topic_list[i][1] = config.topics[i].topic
               /\ sub_topic_list[i][2] = 0

\* C12's case: a dispatcher built from three definitions of two topics.
C12_Witness ==
    /\ Constructed /\ pc = "loop"
    /\ Len(sub_topic_list) >= 3
    /\ Cardinality(DOMAIN topics) >= 2

\* A step that leaves the rule table, the subscription list, the dry-run
\* flag and the notifier as they are.
FrozenStep ==
    /\ topics' = topics
    /\ sub_topic_list' = sub_topic_list
    /\ dry_run' = dry_run
    /\ notify' = notify

\* C13: once the dispatcher is constructed, no step (an event handler, the
\* end of a child process whatever its result, an interrupt) changes the
\* rule table, the subscription list, the dry-run flag or the notifier.
C13_DispatcherStateFrozen == [][Constructed => FrozenStep]_vars

\* C13's case: after a dispatch whose command and notifier both failed, a
\* later message has been dispatched by the same table.
C13_Witness ==
    /\ Returned /\ Matched
    /\ CommandFailedIn(ref.trace)
    /\ ref.trace # <<>> /\ ref.trace[Len(ref.trace)].level = "error"
    /\ Spawned(trace) # <<>>

\* The children spawned in tr that have not ended.
Running(tr) == Len(Only(tr, "spawn")) - Len(Only(tr, "exit"))

\* A step of the event whose child is running: the end of that child (the
\* next record of the trace), or the interrupt of the process.
BlockedStep ==
    /\ ev' = ev
    /\ \/ raised' = "KeyboardInterrupt" /\ trace' = trace
       \/ /\ Len(trace') > Len(trace)
          /\ SubSeq(trace', 1, Len(trace)) = trace
          /\ trace'[Len(trace) + 1].k = "exit"
          /\ trace'[Len(trace) + 1].cmd = trace[Len(trace)].cmd

\* C14: events are handled one at a time and to completion.  At most one
\* child process runs, and one runs exactly while a callback is blocked on
\* it; and every step taken while a child runs belongs to the same event:
\* it is the end of that child or the interrupt of the process.  So while a
\* command does not end, no message, connect or disconnect is handled.
C14_SerialToCompletion ==
    /\ [](/\ Running(trace) \in {0, 1}
          /\ pc \in Blocked => Running(trace) = 1
          /\ pc = "loop" => Running(trace) = 0)
    /\ [][(pc \in Blocked) => BlockedStep]_vars

\* C14's case: a command is running for a message that arrived after an
\* earlier message was handled.
C14_Witness ==
    /\ pc = "command" /\ IsMessage
    /\ ref # NoRef

\* The start-up failures of a run, read off its inputs: a required command
\* missing from the path, /server/host missing, a /notify value that names
\* no notifier, a rule definition without topic or payload or with an
\* unknown field.
ConfigFailure ==
    \/ ~({"xrandr", "aosd_cat", "xdpyinfo"} \subseteq path)
    \/ config.host = None
    \/ config.notify \notin {None, "osd", "dunst"}
    \/ \E i \in 1..Len(config.topics) :
           \/ ~({"topic", "payload"} \subseteq DOMAIN config.topics[i])
           \/ ~(DOMAIN config.topics[i] \subseteq {"topic", "payload", "command", "osd"})

\* C15: in a run with a configuration or dependency failure the event loop
\* is never entered: no event is handled, nothing is logged by a handler or
\* spawned, and the process exits with a non-zero code.
C15_StartupFailureIsFatal ==
    ConfigFailure =>
        /\ pc \in {"main", "exit"}
        /\ ev = NoEvent /\ trace = <<>>
        /\ pc = "exit" => ExitCode # 0

\* C15's case: the process has exited on a malformed rule definition, with
\* every command installed, a host and a known notifier.
C15_Witness ==
    /\ pc = "exit"
    /\ path = Programs /\ config.host # None /\ config.notify = "dunst"
    /\ \E i \in 1..Len(config.topics) : "payload" \notin DOMAIN config.topics[i]

\* C16: a rule defined with neither a command nor a notification text is
\* accepted, and a message that matches it has no effect: no action is
\* announced, no child is spawned, and nothing is logged at warning or
\* error level.
C16_EmptyRuleNoEffect ==
    (Constructed /\ HasRule /\ LastDefOf(ev.topic).payload = ev.payload
       /\ DOMAIN LastDefOf(ev.topic) \cap {"command", "osd"} = {}) =>
        /\ ActionsOf(trace) = <<>>
        /\ Spawned(trace) = <<>>
        /\ \A i \in 1..Len(trace) :
               ~(trace[i].k = "log" /\ trace[i].level \in {"warning", "error"})
        /\ pc \notin Blocked
        /\ raised \in {None, "KeyboardInterrupt"}

\* C16's case: a message matching a rule without actions has been handled.
C16_Witness ==
    /\ Returned /\ Matched
    /\ Rule.command = None /\ Rule.osd = None

\* The record of tr at i is the exit of the rule's own command, of a child
\* of the notifier.
IsCommandExit(tr, i) == tr[i].k = "exit" /\ tr[i].cmd.fmt = "{topic.command}"
IsNotifierExit(tr, i) == tr[i].k = "exit" /\ tr[i].cmd.fmt # "{topic.command}"

\* The record that follows i in tr is the error report of the child at i.
ErrorFollows(tr, i) ==
    i < Len(tr) /\ tr[i + 1] = err_msg(tr[i].cmd, tr[i].result)

\* The error records of tr.
ErrorsOf(tr) == {i \in 1..Len(tr) : tr[i].k = "log" /\ tr[i].level = "error"}

\* C17: outside dry-run a command action logs an error exactly when the
\* command's exit code is not 0, and the exit code comes back as a value:
\* the dispatch goes on to the rule's notification.  A child of the notifier
\* that ends with a non-zero code raises: its error is logged and the
\* dispatch ends there.  exec_text_command with check off never raises, and
\* with check on it raises exactly on a non-zero exit code.
C17_NonZeroExitIsAValue ==
    /\ \A r \in CommandResults \cup XrandrResults \cup XdpyinfoResults \cup AllNotifierResults :
           /\ ~exec_text_command_raises(FALSE, r)
           /\ exec_text_command_raises(TRUE, r) <=> r.ret # 0
    /\ (IsMessage /\ ~dry_run) =>
           /\ \A i \in 1..Len(trace) :
                  /\ IsCommandExit(trace, i) =>
                         /\ ErrorFollows(trace, i) <=> trace[i].result.ret # 0
                         /\ raised \notin {"ShellExecError"}
                         /\ (Matched /\ Rule.osd # None) =>
                                \E j \in (i + 1)..Len(trace) : trace[j] = DisplayingRec(Rule.osd)
                  /\ IsNotifierExit(trace, i) =>
                         /\ ErrorFollows(trace, i) <=> trace[i].result.ret # 0
                         /\ trace[i].result.ret # 0 =>
                                (/\ i + 1 = Len(trace)
                                 /\ pc \notin Blocked
                                 /\ raised \in {None, "KeyboardInterrupt"})
           /\ \A j \in ErrorsOf(trace) :
                  j > 1 /\ trace[j - 1].k = "exit" /\ trace[j - 1].result.ret # 0

\* C17's case: outside dry-run the command has failed, its notification was
\* shown by a notifier that failed in turn, and on_message has returned.
C17_Witness ==
    /\ Returned /\ Matched /\ ~dry_run
    /\ CommandFailedIn(trace)
    /\ \E i \in 1..Len(trace) : IsNotifierExit(trace, i) /\ trace[i].result.ret # 0

\* The lines of an xrandr output that hold " primary ", and the first.
PrimaryLines(lines) ==
    {j \in 1..Len(lines) : lines[j].kind \in {"primary", "primary_off"}}
FirstPrimary(lines) ==
    lines[CHOOSE j \in PrimaryLines(lines) : \A k \in PrimaryLines(lines) : j <= k]

\* The lines of an xdpyinfo output that hold "dimensions:", and the first.
DimensionLines(lines) == {j \in 1..Len(lines) : lines[j].kind = "dimensions"}
FirstDimensions(lines) ==
    lines[CHOOSE j \in DimensionLines(lines) : \A k \in DimensionLines(lines) : j <= k]

IsAosdCat(cmd) == cmd.fmt = AosdCatCmd("", 0, 0, 0).fmt

RECURSIVE CountTopic(_, _)
CountTopic(subs, t) ==
    IF subs = <<>> THEN 0
    ELSE (IF Head(subs)[1] = t THEN 1 ELSE 0) + CountTopic(Tail(subs), t)

\* C19: the subscription list requested on connect holds each topic of the
\* rule table exactly once, so it is as long as the rule table has rules.
C19_SubscribedOncePerRule ==
    \A i \in 1..Len(trace) :
        trace[i].k = "subscribe" =>
            /\ Len(trace[i].subs) = Cardinality(DOMAIN topics)
            /\ \A t \in DOMAIN topics : CountTopic(trace[i].subs, t) = 1

\* The external programs a notifier runs.
Required(n) ==
    IF n = "OSD" THEN {"xrandr", "xdpyinfo", "aosd_cat"}
    ELSE IF n = "DunstNotify" THEN {"dunstify"}
    ELSE {}

\* C20: once start-up has passed the dependency check every program of the
\* selected notifier is in the path, and start-up is refused for a missing
\* program only when the selected notifier runs that program.
C20_SelectedBackendVerified ==
    /\ pc \in InLoop => Required(notify) \subseteq path
    /\ (raised = "AssertionError" /\ SelectNotify # None) =>
           ~(Required(SelectNotify) \subseteq path)

====
